---- MODULE Spec2Model ----
(***************************************************************************)
(* Model of the devx-config store abstraction (package store): the         *)
(* SecretsManager backend of src/store/secretsmgr.go, its callers, and the *)
(* Secrets Manager service its client talks to.                            *)
(*                                                                         *)
(* Strings are sequences of one-character strings, so that concatenation   *)
(* and prefix tests are computed and not assumed.                          *)
(***************************************************************************)
EXTENDS Integers, Sequences, FiniteSets, TLC

\* ------------------------------------------------------------------ bounds
\* Largest number of entries the service puts on one page of ListSecrets.
MaxPageLen == 2

\* ------------------------------------------------------------ input domains
\* The nil error.
Nil == "nil"
\* A Go pointer field: None is the nil pointer, Some(x) points at x.
None == <<>>
Some(x) == <<x>>

SvcA == [Stage |-> <<"T">>, Stack |-> <<"s">>, App |-> <<"a">>]
SvcB == [Stage |-> <<"T">>, Stack |-> <<"s">>, App |-> <<"a", "b">>]
Services == {SvcA, SvcB}

Names == {<<"n">>, <<"m">>}
Values == {<<"v">>, <<"w">>}

\* Retention periods a backend is constructed with (0, below, inside the range).
RetentionInputs == {0, 5, 7}

Callers == {"c1", "c2"}

\* Faulty variant of Prefix: Stack and Stage change places.
Prefix_StackFirst(s) == <<"/">> \o s.Stack \o <<"/">> \o s.Stage \o <<"/">> \o s.App

\* ------------------------------------------------------------------ naming
\* Service.Prefix: fmt.Sprintf("/%s/%s/%s", s.Stage, s.Stack, s.App)
Prefix(s) == <<"/">> \o s.Stage \o <<"/">> \o s.Stack \o <<"/">> \o s.App

\* fmt.Sprintf("%s/%s", service.Prefix(), name) of Get and Set
SecretNameWithPath(service, name) == Prefix(service) \o <<"/">> \o name

IsPrefixOf(p, s) == Len(p) <= Len(s) /\ SubSeq(s, 1, Len(p)) = p

\* getVersionIdHash: base64(md5(value)). The digest is a function of the value
\* alone and has no collision on the values of the model.
getVersionIdHash(value) == <<"md5b64">> \o value

\* Every secret name the callers of the model can address.
FullNames == {SecretNameWithPath(s, n) : s \in Services, n \in Names}

\* Names a caller passes to Delete: relative names, and (main.go: "Name or ARN
\* of secret to delete") complete secret names.
DeleteNames == Names \cup FullNames

\* Parameter names: the flat names and a nested one (a name with a "/").
SsmNames == Names \cup {<<"n", "/", "m">>}
SsmFullNames ==
    {SecretNameWithPath(SvcA, n) : n \in SsmNames} \cup {SecretNameWithPath(SvcB, <<"n">>)}

\* The ARN the service gives the secret of a name, and its inverse.
ArnOf(name) == <<"arn:">> \o name
ResolveId(id) == IF Len(id) > 0 /\ id[1] = "arn:" THEN Tail(id) ELSE id

\* ------------------------------------------------- the Secrets Manager service
\* One record per secret name. An Active secret has a set of versions, each
\* identified by the ClientRequestToken that created it, and a current one.
AbsentRec == [st |-> "Absent", versions |-> {}, current |-> None]
ScheduledRec == [st |-> "Scheduled", versions |-> {}, current |-> None]

Lookup(sec, id) ==
    LET n == ResolveId(id) IN IF n \in DOMAIN sec THEN sec[n] ELSE AbsentRec

CurrentValue(rec) == (CHOOSE ver \in rec.versions : ver.token = rec.current).value

\* client.CreateSecret: a new secret with a first version; a name that exists
\* is a ResourceExistsException unless the token names a version with the
\* same content, in which case the request is ignored ("will silently fail if
\* we have the same values already present but will error if there is already
\* a version").
SvcCreateSecret(sec, req) ==
    LET rec == Lookup(sec, req.Name) IN
    IF rec.st = "Absent"
    THEN [err |-> Nil,
          secrets |-> [sec EXCEPT ![req.Name] =
                          [st |-> "Active",
                           versions |-> {[token |-> req.ClientRequestToken,
                                          value |-> req.SecretString]},
                           current |-> req.ClientRequestToken]]]
    ELSE IF rec.st = "Scheduled"
    THEN [err |-> "InvalidRequestException", secrets |-> sec]
    ELSE IF [token |-> req.ClientRequestToken, value |-> req.SecretString] \in rec.versions
    THEN [err |-> Nil, secrets |-> sec]
    ELSE [err |-> "ResourceExistsException", secrets |-> sec]

\* client.PutSecretValue: appends a version and makes it current; a token that
\* already names a version with the same content leaves the secret as it is.
SvcPutSecretValue(sec, req) ==
    LET rec == Lookup(sec, req.SecretId) IN
    IF rec.st = "Absent"
    THEN [err |-> "ResourceNotFoundException", secrets |-> sec]
    ELSE IF rec.st = "Scheduled"
    THEN [err |-> "InvalidRequestException", secrets |-> sec]
    ELSE IF [token |-> req.ClientRequestToken, value |-> req.SecretString] \in rec.versions
    THEN [err |-> Nil, secrets |-> sec]
    ELSE IF \E ver \in rec.versions : ver.token = req.ClientRequestToken
    THEN [err |-> "ResourceExistsException", secrets |-> sec]
    ELSE [err |-> Nil,
          secrets |-> [sec EXCEPT ![ResolveId(req.SecretId)] =
                          [st |-> "Active",
                           versions |-> rec.versions \cup
                                        {[token |-> req.ClientRequestToken,
                                          value |-> req.SecretString]},
                           current |-> req.ClientRequestToken]]]

\* A version stored as bytes (SecretBinary) instead of text, and the token of
\* the client that stored it. Set only ever stores text (SecretString).
BinaryValue == <<"bytes:", "d">>
BinaryToken == <<"other-client">>
IsBinary(value) == Len(value) > 0 /\ value[1] = "bytes:"

\* client.GetSecretValue, by name or by ARN: the current version of the
\* secret; a binary version comes back with SecretString nil.
SvcGetSecretValue(sec, req) ==
    LET rec == Lookup(sec, req.SecretId) IN
    IF rec.st = "Absent"
    THEN [err |-> "ResourceNotFoundException", Name |-> None, SecretString |-> None]
    ELSE IF rec.st = "Scheduled"
    THEN [err |-> "InvalidRequestException", Name |-> None, SecretString |-> None]
    ELSE [err |-> Nil, Name |-> Some(ResolveId(req.SecretId)),
          SecretString |-> IF IsBinary(CurrentValue(rec))
                           THEN None ELSE Some(CurrentValue(rec))]

\* client.DeleteSecret. With ForceDeleteWithoutRecovery the secret is gone at
\* once and a name that does not exist is not an error; with a recovery window
\* ("aws only supports post-deletion retention periods of between 7 and 30
\* days") the secret is scheduled for deletion.
SvcDeleteSecret(sec, req) ==
    LET rec == Lookup(sec, req.SecretId)
        n == ResolveId(req.SecretId) IN
    IF req.ForceDeleteWithoutRecovery = Some(TRUE)
    THEN [err |-> Nil,
          secrets |-> IF n \in DOMAIN sec THEN [sec EXCEPT ![n] = AbsentRec] ELSE sec]
    ELSE IF req.RecoveryWindowInDays # None
            /\ (req.RecoveryWindowInDays[1] < 7 \/ req.RecoveryWindowInDays[1] > 30)
    THEN [err |-> "InvalidParameterException", secrets |-> sec]
    ELSE IF rec.st = "Absent"
    THEN [err |-> "ResourceNotFoundException", secrets |-> sec]
    ELSE [err |-> Nil, secrets |-> [sec EXCEPT ![n] = ScheduledRec]]

\* Order of the characters of the model, for the order of secret names.
CharRank(c) ==
    CASE c = "/" -> 1 [] c = "T" -> 2 [] c = "a" -> 3 [] c = "b" -> 4
      [] c = "m" -> 5 [] c = "n" -> 6 [] c = "s" -> 7 [] OTHER -> 8

RECURSIVE LexLess(_, _)
LexLess(a, b) ==
    IF a = <<>> THEN b # <<>>
    ELSE IF b = <<>> THEN FALSE
    ELSE IF Head(a) = Head(b) THEN LexLess(Tail(a), Tail(b))
    ELSE CharRank(Head(a)) < CharRank(Head(b))

RECURSIVE DescSeq(_)
DescSeq(S) ==
    IF S = {} THEN <<>>
    ELSE LET mx == CHOOSE x \in S : \A y \in S : y = x \/ LexLess(y, x)
         IN <<mx>> \o DescSeq(S \ {mx})

\* The secrets a ListSecrets request with a name filter matches (a prefix
\* match on the secret name; secrets scheduled for deletion are left out),
\* in descending order.
Matching(sec, filter) ==
    DescSeq({n \in DOMAIN sec : sec[n].st = "Active" /\ IsPrefixOf(filter, n)})

\* client.ListSecrets: the page that starts after NextToken entries, with at
\* most k entries (the service chooses k), and the token of the next page.
SvcListSecrets(sec, req, k) ==
    LET all == Matching(sec, req.Filter)
        off == IF req.NextToken = None THEN 0 ELSE req.NextToken[1]
        last == IF off + k < Len(all) THEN off + k ELSE Len(all)
    IN [err |-> Nil,
        SecretList |-> [i \in 1 .. (IF last > off THEN last - off ELSE 0) |->
                           [ARN |-> ArnOf(all[off + i]), Name |-> all[off + i]]],
        NextToken |-> IF last < Len(all) THEN Some(last) ELSE None]

\* ------------------------------------------------------------------- state
VARIABLES
    sm,        \* the SecretsManager backend: None, or Some of its fields
    newErr,    \* the error NewSecretsManagerStore returned
    secrets,   \* the service: secret name -> record
    pc,        \* caller -> position in its store operation
    op,        \* caller -> the operation it runs, with its arguments and locals
    calls,     \* caller -> the round trips of the operation so far, in order
    result,    \* caller -> what the operation returned
    ctxs,      \* caller -> the timeout contexts of the operation: their events, in order
    params,    \* the Parameter Store service: parameter name -> record
    pure,      \* a function of package store under evaluation: input and output
    cli        \* one run of the command line program (main)

vars == <<sm, newErr, secrets, pc, op, calls, result, ctxs, params, pure, cli>>

NoOp == [kind |-> "none"]
NoResult == [err |-> Nil]

\* A parameter that does not exist.
NoParam == [st |-> "Absent", Value |-> <<>>, Type |-> "none"]
NoParams == [n \in SsmFullNames |-> NoParam]
NoPure == [fn |-> "none"]
NoFile == [kind |-> "absent"]
NoCli == [pc |-> "none", local |-> NoFile]

Init ==
    /\ params = NoParams
    /\ pure = NoPure
    /\ cli = NoCli
    /\ sm = None
    /\ newErr = Nil
    /\ secrets = [n \in FullNames |-> AbsentRec]
    /\ pc = [p \in Callers |-> "idle"]
    /\ op = [p \in Callers |-> NoOp]
    /\ calls = [p \in Callers |-> <<>>]
    /\ ctxs = [p \in Callers |-> <<>>]
    /\ result = [p \in Callers |-> NoResult]

\* A round trip either reaches the service or fails on the way (timeout of
\* its context, network): the error kinds other than the service's own.
TransportError == "TransportError"

\* A round trip that changes the service: it is answered, or it fails before
\* the service saw the request, or it fails (its context times out) after the
\* service applied the request.
RoundTripOutcomes == {"answered", "unsent", "unanswered"}

RoundTrip(outcome, answer, sec) ==
    CASE outcome = "answered" -> answer
      [] outcome = "unsent" -> [err |-> TransportError, secrets |-> sec]
      [] outcome = "unanswered" -> [err |-> TransportError, secrets |-> answer.secrets]

\* ------------------------------------------------------------ construction
\* Faulty variant of NewSecretsManagerStore: the bounds of the range are
\* themselves rejected.
NewSecretsManagerStore_OffByOne(secretsRetentionDays) ==
    /\ sm = None
    /\ newErr = Nil
    /\ IF secretsRetentionDays # 0 /\ (secretsRetentionDays <= 7 \/ secretsRetentionDays >= 30)
       THEN /\ newErr' = "ErrRetentionPeriod"
            /\ sm' = None
       ELSE /\ newErr' = Nil
            /\ sm' = Some([SecretRetentionDays |-> secretsRetentionDays])
    /\ UNCHANGED <<params, pure, cli, secrets, pc, op, calls, ctxs, result>>

NewSecretsManagerStore(secretsRetentionDays) ==
    /\ sm = None
    /\ newErr = Nil
    /\ IF secretsRetentionDays # 0 /\ (secretsRetentionDays < 7 \/ secretsRetentionDays > 30)
       THEN /\ newErr' = "ErrRetentionPeriod"
            /\ sm' = None
       ELSE /\ newErr' = Nil
            /\ sm' = Some([SecretRetentionDays |-> secretsRetentionDays])
    /\ UNCHANGED <<params, pure, cli, secrets, pc, op, calls, ctxs, result>>

SecretRetentionDays == sm[1].SecretRetentionDays

\* An operation has returned (or the process has died): the caller goes on.
\* ------------------------------------------------------- timeout contexts
\* context.WithTimeout(context.Background(), s.DefaultTimeout): a context no
\* earlier call returned; the contexts of an operation are numbered in the
\* order of their creation.
timeoutContext(log) == Cardinality({i \in 1 .. Len(log) : log[i].ev = "new"}) + 1

\* ctx, cancelFunc := s.timeoutContext(); defer cancelFunc(); then the one
\* client call under ctx and the return of the function, which runs the
\* deferred cancelFunc (Get, fetchSecretValue, createNewSecret,
\* updateExistingSecret, Delete).
DeferredContext(log) ==
    LET ctx == timeoutContext(log)
    IN log \o <<[ev |-> "new", ctx |-> ctx], [ev |-> "call", ctx |-> ctx],
                [ev |-> "cancel", ctx |-> ctx]>>

\* Faulty variant of PageContext: cancelFunc is never called.
PageContext_NoCancel(log) ==
    LET ctx == timeoutContext(log)
    IN log \o <<[ev |-> "new", ctx |-> ctx], [ev |-> "call", ctx |-> ctx]>>

\* nextPageOfResults: ctx, cancelFunc := s.timeoutContext(); ListSecrets
\* under ctx; cancelFunc() before the error is looked at.
PageContext(log) ==
    LET ctx == timeoutContext(log)
    IN log \o <<[ev |-> "new", ctx |-> ctx], [ev |-> "call", ctx |-> ctx],
                [ev |-> "cancel", ctx |-> ctx]>>

Finish(p, res) ==
    /\ pc' = [pc EXCEPT ![p] = "done"]
    /\ result' = [result EXCEPT ![p] = res]

\* ------------------------------------------------------------------- Get
\* Faulty variant of GetResult: a secret without text is refused.
GetResult_TextOnly(service, response) ==
    IF response.err # Nil
    THEN [err |-> response.err, item |-> None]
    ELSE IF response.SecretString = None
    THEN [err |-> "ErrNoSecretString", item |-> None]
    ELSE [err |-> Nil,
          item |-> Some([Name |-> response.Name[1],
                         Value |-> response.SecretString[1],
                         IsSecret |-> TRUE,
                         Service |-> service])]

\* What SecretsManager.Get makes of the service's answer.
GetResult(service, response) ==
    IF response.err # Nil
    THEN [err |-> response.err, item |-> None]
    ELSE [err |-> Nil,
          item |-> Some([Name |-> response.Name[1],
                         Value |-> IF response.SecretString # None
                                   THEN response.SecretString[1] ELSE <<>>,
                         IsSecret |-> TRUE,
                         Service |-> service])]

Get(p, service, name) ==
    /\ sm # None
    /\ pc[p] = "idle"
    /\ \E fail \in BOOLEAN :
          LET req == [SecretId |-> SecretNameWithPath(service, name)]
              response == IF fail
                          THEN [err |-> TransportError, Name |-> None, SecretString |-> None]
                          ELSE SvcGetSecretValue(secrets, req)
          IN /\ op' = [op EXCEPT ![p] = [kind |-> "Get", service |-> service, name |-> name]]
             /\ calls' = [calls EXCEPT ![p] =
                             <<[api |-> "GetSecretValue", req |-> req, err |-> response.err,
                                SecretString |-> response.SecretString]>>]
             /\ ctxs' = [ctxs EXCEPT ![p] = DeferredContext(<<>>)]
             /\ Finish(p, GetResult(service, response))
    /\ UNCHANGED <<params, pure, cli, sm, newErr, secrets>>

\* ------------------------------------------------------------------- Set
\* The request createNewSecret builds.
CreateSecretInput(service, secretNameWithPath, value, hashedIdValue) ==
    [ClientRequestToken |-> hashedIdValue,
     Name |-> secretNameWithPath,
     SecretString |-> value,
     Tags |-> <<[Key |-> "App", Value |-> service.App],
                [Key |-> "Stack", Value |-> service.Stack],
                [Key |-> "Stage", Value |-> service.Stage]>>]

\* Faulty variant of PutSecretValueInput: a token of its own, made of the
\* name as well.
PutSecretValueInput_OwnToken(secretNameWithPath, value, hashedIdValue) ==
    [ClientRequestToken |-> getVersionIdHash(secretNameWithPath \o value),
     SecretId |-> secretNameWithPath,
     SecretString |-> value]

\* The request updateExistingSecret builds.
PutSecretValueInput(secretNameWithPath, value, hashedIdValue) ==
    [ClientRequestToken |-> hashedIdValue,
     SecretId |-> secretNameWithPath,
     SecretString |-> value]

\* Faulty variants of IsResourceExists: the conflict is never recognised; every
\* error is taken for the conflict.
IsResourceExists_Never(err) == FALSE
IsResourceExists_Any(err) == err # Nil

\* errors.As(err, &resourceExistsException)
IsResourceExists(err) == err = "ResourceExistsException"

\* SecretsManager.Set with isSecret false: the error, and nothing else.
SetRejected(p, service, name, value, isSecret) ==
    /\ op' = [op EXCEPT ![p] = [kind |-> "Set", service |-> service, name |-> name,
                                value |-> value, isSecret |-> isSecret,
                                secretNameWithPath |-> None, hashedIdValue |-> None]]
    /\ calls' = [calls EXCEPT ![p] = <<>>]
    /\ ctxs' = [ctxs EXCEPT ![p] = <<>>]
    /\ Finish(p, [err |-> "ErrNotSecret"])
    /\ UNCHANGED secrets

\* SecretsManager.Set from the name and the token to the return of
\* createNewSecret: the CreateSecret round trip; the fallback is taken on the
\* conflict only, every other outcome is Set's result.
SetCreate(p, service, name, value, isSecret) ==
    \E outcome \in RoundTripOutcomes :
       LET secretNameWithPath == SecretNameWithPath(service, name)
           hashedIdValue == getVersionIdHash(value)
           req == CreateSecretInput(service, secretNameWithPath, value, hashedIdValue)
           response == RoundTrip(outcome, SvcCreateSecret(secrets, req), secrets)
       IN /\ op' = [op EXCEPT ![p] = [kind |-> "Set", service |-> service, name |-> name,
                                      value |-> value, isSecret |-> isSecret,
                                      secretNameWithPath |-> Some(secretNameWithPath),
                                      hashedIdValue |-> Some(hashedIdValue)]]
          /\ calls' = [calls EXCEPT ![p] =
                          <<[api |-> "CreateSecret", req |-> req, err |-> response.err]>>]
          /\ ctxs' = [ctxs EXCEPT ![p] = DeferredContext(<<>>)]
          /\ secrets' = response.secrets
          /\ IF IsResourceExists(response.err)
             THEN /\ pc' = [pc EXCEPT ![p] = "Set_update"]
                  /\ UNCHANGED result
             ELSE Finish(p, [err |-> response.err])

\* Faulty variant of Set: the isSecret check is missing.
Set_NoCheck(p, service, name, value, isSecret) ==
    /\ sm # None
    /\ pc[p] = "idle"
    /\ SetCreate(p, service, name, value, isSecret)
    /\ UNCHANGED <<params, pure, cli, sm, newErr>>

\* SecretsManager.Set up to and including createNewSecret.
Set(p, service, name, value, isSecret) ==
    /\ sm # None
    /\ pc[p] = "idle"
    /\ IF ~isSecret
       THEN SetRejected(p, service, name, value, isSecret)
       ELSE SetCreate(p, service, name, value, isSecret)
    /\ UNCHANGED <<params, pure, cli, sm, newErr>>

\* The fallback of Set: updateExistingSecret, whose error is Set's.
SetUpdate(p) ==
    /\ pc[p] = "Set_update"
    /\ \E outcome \in RoundTripOutcomes :
          LET req == PutSecretValueInput(op[p].secretNameWithPath[1], op[p].value,
                                         op[p].hashedIdValue[1])
              response == RoundTrip(outcome, SvcPutSecretValue(secrets, req), secrets)
          IN /\ calls' = [calls EXCEPT ![p] =
                             Append(@, [api |-> "PutSecretValue", req |-> req,
                                        err |-> response.err])]
             /\ ctxs' = [ctxs EXCEPT ![p] = DeferredContext(@)]
             /\ secrets' = response.secrets
             /\ Finish(p, [err |-> response.err])
    /\ UNCHANGED <<params, pure, cli, sm, newErr, op>>

\* ----------------------------------------------------------------- Delete
\* Faulty variant of DeleteSecretInput: the recovery-window shape also forces.
DeleteSecretInput_Both(retentionDays, service, name) ==
    [RecoveryWindowInDays |-> IF retentionDays > 0 THEN Some(retentionDays) ELSE None,
     SecretId |-> name,
     ForceDeleteWithoutRecovery |-> Some(TRUE)]

\* The request SecretsManager.Delete builds.
DeleteSecretInput(retentionDays, service, name) ==
    IF retentionDays > 0
    THEN [RecoveryWindowInDays |-> Some(retentionDays),
          SecretId |-> name,
          ForceDeleteWithoutRecovery |-> None]
    ELSE [RecoveryWindowInDays |-> None,
          SecretId |-> name,
          ForceDeleteWithoutRecovery |-> Some(TRUE)]

Delete(p, service, name) ==
    /\ sm # None
    /\ pc[p] = "idle"
    /\ \E outcome \in RoundTripOutcomes :
          LET req == DeleteSecretInput(SecretRetentionDays, service, name)
              response == RoundTrip(outcome, SvcDeleteSecret(secrets, req), secrets)
          IN /\ op' = [op EXCEPT ![p] = [kind |-> "Delete", service |-> service, name |-> name]]
             /\ calls' = [calls EXCEPT ![p] =
                             <<[api |-> "DeleteSecret", req |-> req, err |-> response.err]>>]
             /\ ctxs' = [ctxs EXCEPT ![p] = DeferredContext(<<>>)]
             /\ secrets' = response.secrets
             /\ Finish(p, [err |-> response.err])
    /\ UNCHANGED <<params, pure, cli, sm, newErr>>

\* The recovery window of a secret scheduled for deletion runs out.
RecoveryWindowElapses(n) ==
    /\ secrets[n].st = "Scheduled"
    /\ secrets' = [secrets EXCEPT ![n] = AbsentRec]
    /\ UNCHANGED <<params, pure, cli, sm, newErr, pc, op, calls, ctxs, result>>

\* Another client of the service stores a binary secret under a free name.
PutSecretBinary(n) ==
    /\ secrets[n].st = "Absent"
    /\ secrets' = [secrets EXCEPT ![n] =
                      [st |-> "Active",
                       versions |-> {[token |-> BinaryToken, value |-> BinaryValue]},
                       current |-> BinaryToken]]
    /\ UNCHANGED <<params, pure, cli, sm, newErr, pc, op, calls, ctxs, result>>

\* ------------------------------------------------------------------- List
\* Faulty variant of ListSecretsInput: the token is not passed on.
ListSecretsInput_NoToken(service, nextToken) ==
    [Filter |-> Prefix(service), NextToken |-> None, SortOrder |-> "desc"]

\* The request nextPageOfResults builds.
ListSecretsInput(service, nextToken) ==
    [Filter |-> Prefix(service), NextToken |-> nextToken, SortOrder |-> "desc"]

\* fetchSecretValue: the text of the current version, "" for a secret
\* without text, or the error.
fetchSecretValue(response) ==
    IF response.err = Nil
    THEN IF response.SecretString = None
         THEN [value |-> <<>>, err |-> Nil]
         ELSE [value |-> response.SecretString[1], err |-> Nil]
    ELSE [value |-> <<>>, err |-> response.err]

\* Faulty variant of ListedParameter: IsSecret is left at its zero value.
ListedParameter_ZeroFlag(service, entry, secretValue) ==
    [Service |-> service, Name |-> entry.Name, Value |-> secretValue, IsSecret |-> FALSE]

\* The Parameter nextPageOfResults makes of a list entry and its value.
ListedParameter(service, entry, secretValue) ==
    [Service |-> service, Name |-> entry.Name, Value |-> secretValue, IsSecret |-> TRUE]

\* SecretsManager.List: return *resultsPtr, err. A nil resultsPtr cannot be
\* dereferenced: the process panics and returns nothing.
ListReturn(resultsPtr, err) ==
    IF resultsPtr = None
    THEN [pc |-> "panicked", res |-> [err |-> "PanicNilDereference", items |-> None]]
    ELSE [pc |-> "done", res |-> [err |-> err, items |-> resultsPtr]]

\* nextPageOfResults returns (resultsPtr, err) through all its frames to List.
ListReturns(p, o, resultsPtr, err) ==
    LET r == ListReturn(resultsPtr, err)
    IN /\ op' = [op EXCEPT ![p] = [kind |-> "List", service |-> o.service]]
       /\ pc' = [pc EXCEPT ![p] = r.pc]
       /\ result' = [result EXCEPT ![p] = r.res]

\* Faulty variant of AppendResults: the page is put in front of the earlier pages.
AppendResults_Prepend(currentResults, results) == results \o currentResults

\* updatedCompleteResults := append(*currentResults, results...)
AppendResults(currentResults, results) == currentResults \o results

\* The end of the loop over a page: append the page's results, and either
\* recurse with the response's token or return the complete results.
PageComplete(p, o, results) ==
    LET updatedCompleteResults == AppendResults(o.currentResults, results)
    IN IF o.respToken # None
       THEN /\ op' = [op EXCEPT ![p] = [kind |-> "List", service |-> o.service,
                                       nextToken |-> o.respToken,
                                       currentResults |-> updatedCompleteResults,
                                       SecretList |-> <<>>, respToken |-> None,
                                       results |-> <<>>]]
            /\ pc' = [pc EXCEPT ![p] = "List_page"]
            /\ UNCHANGED result
       ELSE ListReturns(p, o, Some(updatedCompleteResults), Nil)

\* One ListSecrets round trip of nextPageOfResults.
PageFetch(p, service, nextToken, currentResults) ==
    \E fail \in BOOLEAN, k \in 1 .. MaxPageLen :
       LET req == ListSecretsInput(service, nextToken)
           response == IF fail
                       THEN [err |-> TransportError, SecretList |-> <<>>, NextToken |-> None]
                       ELSE SvcListSecrets(secrets, req, k)
           o == [kind |-> "List", service |-> service, nextToken |-> nextToken,
                 currentResults |-> currentResults, SecretList |-> response.SecretList,
                 respToken |-> response.NextToken, results |-> <<>>]
       IN /\ calls' = [calls EXCEPT ![p] =
                          Append(@, [api |-> "ListSecrets", req |-> req, err |-> response.err,
                                     SecretList |-> response.SecretList,
                                     NextToken |-> response.NextToken])]
          /\ ctxs' = [ctxs EXCEPT ![p] = PageContext(@)]
          /\ IF response.err # Nil
             THEN ListReturns(p, o, None, response.err)
             ELSE IF Len(response.SecretList) = 0
             THEN PageComplete(p, o, <<>>)
             ELSE /\ op' = [op EXCEPT ![p] = o]
                  /\ pc' = [pc EXCEPT ![p] = "List_entry"]
                  /\ UNCHANGED result

\* SecretsManager.List up to and including the first page's round trip.
List(p, service) ==
    /\ sm # None
    /\ pc[p] = "idle"
    /\ calls[p] = <<>>
    /\ PageFetch(p, service, None, <<>>)
    /\ UNCHANGED <<params, pure, cli, sm, newErr, secrets>>

\* The recursive call of nextPageOfResults with the token of the last page.
ListNextPage(p) ==
    /\ pc[p] = "List_page"
    /\ PageFetch(p, op[p].service, op[p].nextToken, op[p].currentResults)
    /\ UNCHANGED <<params, pure, cli, sm, newErr, secrets>>

\* One turn of the loop over the page: the GetSecretValue round trip of
\* fetchSecretValue for the next entry.
ListEntry(p) ==
    /\ pc[p] = "List_entry"
    /\ \E fail \in BOOLEAN :
          LET o == op[p]
              entry == o.SecretList[Len(o.results) + 1]
              req == [SecretId |-> entry.ARN]
              response == IF fail
                          THEN [err |-> TransportError, Name |-> None, SecretString |-> None]
                          ELSE SvcGetSecretValue(secrets, req)
              fetched == fetchSecretValue(response)
              results == Append(o.results, ListedParameter(o.service, entry, fetched.value))
          IN /\ calls' = [calls EXCEPT ![p] =
                             Append(@, [api |-> "GetSecretValue", req |-> req,
                                        err |-> response.err,
                                        SecretString |-> response.SecretString])]
             /\ ctxs' = [ctxs EXCEPT ![p] = DeferredContext(@)]
             /\ IF fetched.err # Nil
                THEN ListReturns(p, o, None, fetched.err)
                ELSE IF Len(results) = Len(o.SecretList)
                THEN PageComplete(p, o, results)
                ELSE /\ op' = [op EXCEPT ![p] = [o EXCEPT !.results = results]]
                     /\ UNCHANGED <<pc, result>>
    /\ UNCHANGED <<params, pure, cli, sm, newErr, secrets>>

\* ============================================================ SSM backend
\* ------------------------------------------------ the Parameter Store service
\* The (service, name) pairs the callers of the SSM backend address.
SsmTargets == ({SvcA} \X SsmNames) \cup {<<SvcB, <<"n">>>>}

\* A Go bool field left out of a request has the zero value.
IsSet(field) == field = Some(TRUE)

\* What the service hands out as the value of a parameter: the text, or for
\* an encrypted parameter read without decryption its ciphertext.
Ciphertext(value) == <<"kms:">> \o value
ReadValue(rec, withDecryption) ==
    IF rec.Type = "SecureString" /\ ~withDecryption THEN Ciphertext(rec.Value) ELSE rec.Value

ParamLookup(par, name) == IF name \in DOMAIN par THEN par[name] ELSE NoParam

\* client.GetParameter
SvcGetParameter(par, req) ==
    LET rec == ParamLookup(par, req.Name) IN
    IF rec.st = "Absent"
    THEN [err |-> "ParameterNotFound", Parameter |-> None]
    ELSE [err |-> Nil,
          Parameter |-> Some([Name |-> req.Name,
                              Value |-> ReadValue(rec, req.WithDecryption),
                              Type |-> rec.Type])]

\* client.PutParameter: a parameter that exists is replaced only by a request
\* that sets Overwrite.
SvcPutParameter(par, req) ==
    LET rec == ParamLookup(par, req.Name) IN
    IF rec.st # "Absent" /\ ~IsSet(req.Overwrite)
    THEN [err |-> "ParameterAlreadyExists", params |-> par]
    ELSE [err |-> Nil,
          params |-> [par EXCEPT ![req.Name] =
                         [st |-> "Present", Value |-> req.Value, Type |-> req.Type]]]

\* client.DeleteParameter
SvcDeleteParameter(par, req) ==
    IF ParamLookup(par, req.Name).st = "Absent"
    THEN [err |-> "ParameterNotFound", params |-> par]
    ELSE [err |-> Nil, params |-> [par EXCEPT ![req.Name] = NoParam]]

\* A name is under a path when the path and a "/" start it; it is one level
\* under the path when nothing after that "/" is another "/".
HasSlash(s) == \E i \in 1 .. Len(s) : s[i] = "/"
UnderPath(path, name, recursive) ==
    /\ IsPrefixOf(path \o <<"/">>, name)
    /\ recursive \/ ~HasSlash(SubSeq(name, Len(path) + 2, Len(name)))

\* client.GetParametersByPath: one page of the parameters in the hierarchy of
\* Path (one level only unless Recursive is set), and the token of the next.
SvcGetParametersByPath(par, req, k) ==
    LET all == DescSeq({n \in DOMAIN par :
                           par[n].st = "Present" /\ UnderPath(req.Path, n, IsSet(req.Recursive))})
        off == IF req.NextToken = None THEN 0 ELSE req.NextToken[1]
        last == IF off + k < Len(all) THEN off + k ELSE Len(all)
    IN [err |-> Nil,
        Parameters |-> [i \in 1 .. (IF last > off THEN last - off ELSE 0) |->
                           [Name |-> all[off + i],
                            Value |-> ReadValue(par[all[off + i]], req.WithDecryption),
                            Type |-> par[all[off + i]].Type]],
        NextToken |-> IF last < Len(all) THEN Some(last) ELSE None]

\* --------------------------------------------------------------- SSM store
asConfigItem(service, param) ==
    [Name |-> param.Name,
     Value |-> param.Value,
     IsSecret |-> param.Type = "SecureString",
     Service |-> service]

asConfigItems(service, pars) == [i \in 1 .. Len(pars) |-> asConfigItem(service, pars[i])]

\* The request SSM.Get builds.
GetParameterInput(service, name) ==
    [Name |-> Prefix(service) \o <<"/">> \o name, WithDecryption |-> TRUE]

SsmGetResult(service, response) ==
    IF response.err # Nil
    THEN [err |-> response.err, item |-> None]
    ELSE [err |-> Nil, item |-> Some(asConfigItem(service, response.Parameter[1]))]

SsmGet(p, service, name) ==
    /\ pc[p] = "idle"
    /\ \E fail \in BOOLEAN :
          LET req == GetParameterInput(service, name)
              response == IF fail THEN [err |-> TransportError, Parameter |-> None]
                          ELSE SvcGetParameter(params, req)
          IN /\ op' = [op EXCEPT ![p] = [kind |-> "SsmGet", service |-> service, name |-> name]]
             /\ calls' = [calls EXCEPT ![p] =
                             <<[api |-> "GetParameter", req |-> req, err |-> response.err]>>]
             /\ Finish(p, SsmGetResult(service, response))
    /\ UNCHANGED <<ctxs, params, pure, cli, sm, newErr, secrets>>

\* Faulty variant of PutParameterInput: the type does not follow isSecret.
PutParameterInput_Plain(service, name, value, isSecret) ==
    [Name |-> Prefix(service) \o <<"/">> \o name,
     Value |-> value,
     Type |-> "String",
     Overwrite |-> None]

\* The request SSM.Set builds: name, value and type, and nothing else.
PutParameterInput(service, name, value, isSecret) ==
    [Name |-> Prefix(service) \o <<"/">> \o name,
     Value |-> value,
     Type |-> IF isSecret THEN "SecureString" ELSE "String",
     Overwrite |-> None]

SsmSet(p, service, name, value, isSecret) ==
    /\ pc[p] = "idle"
    /\ \E outcome \in RoundTripOutcomes :
          LET req == PutParameterInput(service, name, value, isSecret)
              answer == SvcPutParameter(params, req)
              response == CASE outcome = "answered" -> answer
                            [] outcome = "unsent" -> [err |-> TransportError, params |-> params]
                            [] outcome = "unanswered" ->
                                   [err |-> TransportError, params |-> answer.params]
          IN /\ op' = [op EXCEPT ![p] = [kind |-> "SsmSet", service |-> service, name |-> name,
                                         value |-> value, isSecret |-> isSecret]]
             /\ calls' = [calls EXCEPT ![p] =
                             <<[api |-> "PutParameter", req |-> req, err |-> response.err]>>]
             /\ params' = response.params
             /\ Finish(p, [err |-> response.err])
    /\ UNCHANGED <<ctxs, pure, cli, sm, newErr, secrets>>

\* The request SSM.Delete builds.
DeleteParameterInput(service, name) == [Name |-> Prefix(service) \o <<"/">> \o name]

SsmDelete(p, service, name) ==
    /\ pc[p] = "idle"
    /\ \E outcome \in RoundTripOutcomes :
          LET req == DeleteParameterInput(service, name)
              answer == SvcDeleteParameter(params, req)
              response == CASE outcome = "answered" -> answer
                            [] outcome = "unsent" -> [err |-> TransportError, params |-> params]
                            [] outcome = "unanswered" ->
                                   [err |-> TransportError, params |-> answer.params]
          IN /\ op' = [op EXCEPT ![p] = [kind |-> "SsmDelete", service |-> service,
                                         name |-> name]]
             /\ calls' = [calls EXCEPT ![p] =
                             <<[api |-> "DeleteParameter", req |-> req, err |-> response.err]>>]
             /\ params' = response.params
             /\ Finish(p, [err |-> response.err])
    /\ UNCHANGED <<ctxs, pure, cli, sm, newErr, secrets>>

\* The request of the paginator of SSM.List, with the token of the last page.
GetParametersByPathInput(service, nextToken) ==
    [Path |-> Prefix(service), WithDecryption |-> TRUE, Recursive |-> None,
     NextToken |-> nextToken]

\* Faulty variant of SsmAppendPage: the page replaces the items so far.
SsmAppendPage_Replace(items, pageItems) == pageItems

\* items = append(items, asConfigItems(service, page.Parameters)...)
SsmAppendPage(items, pageItems) == items \o pageItems

\* fmt.Errorf("unable to get parameters: %w", err)
WrapListError(err) == "unable to get parameters: " \o err

\* A faulty variant of the failing return: the error alone.
SsmListFailure_ErrorOnly(items, err) == [err |-> WrapListError(err), items |-> <<>>]

\* return items, fmt.Errorf("unable to get parameters: %w", err)
SsmListFailure(items, err) == [err |-> WrapListError(err), items |-> items]

\* One turn of the loop of SSM.List: pages.NextPage, then either the return
\* of the items so far with the wrapped error, or the append of the page; the
\* loop ends when the page has no token (pages.HasMorePages).
SsmPageFetch(p, service, nextToken, items) ==
    \E fail \in BOOLEAN, k \in 1 .. MaxPageLen :
       LET req == GetParametersByPathInput(service, nextToken)
           page == IF fail THEN [err |-> TransportError, Parameters |-> <<>>, NextToken |-> None]
                   ELSE SvcGetParametersByPath(params, req, k)
           appended == SsmAppendPage(items, asConfigItems(service, page.Parameters))
       IN /\ calls' = [calls EXCEPT ![p] =
                          Append(@, [api |-> "GetParametersByPath", req |-> req,
                                     err |-> page.err, Parameters |-> page.Parameters,
                                     NextToken |-> page.NextToken])]
          /\ IF page.err # Nil
             THEN /\ op' = [op EXCEPT ![p] = [kind |-> "SsmList", service |-> service]]
                  /\ Finish(p, SsmListFailure(items, page.err))
             ELSE IF page.NextToken # None
             THEN /\ op' = [op EXCEPT ![p] = [kind |-> "SsmList", service |-> service,
                                             nextToken |-> page.NextToken,
                                             items |-> appended]]
                  /\ pc' = [pc EXCEPT ![p] = "SsmList_page"]
                  /\ UNCHANGED result
             ELSE /\ op' = [op EXCEPT ![p] = [kind |-> "SsmList", service |-> service]]
                  /\ Finish(p, [err |-> Nil, items |-> appended])

\* SSM.List up to and including the first page.
SsmList(p, service) ==
    /\ pc[p] = "idle"
    /\ calls[p] = <<>>
    /\ SsmPageFetch(p, service, None, <<>>)
    /\ UNCHANGED <<ctxs, params, pure, cli, sm, newErr, secrets>>

SsmListNextPage(p) ==
    /\ pc[p] = "SsmList_page"
    /\ SsmPageFetch(p, op[p].service, op[p].nextToken, op[p].items)
    /\ UNCHANGED <<ctxs, params, pure, cli, sm, newErr, secrets>>

\* ------------------------------------------------- Prefix and String
\* The inputs of the two pure functions of store.go: identities over every
\* combination of field values, the empty one included, and names put
\* together from at most MaxNameParts pieces, the identity's own prefix + "/"
\* among them.
MaxNameParts == 3
PureFields == {<<>>, <<"T">>, <<"s">>, <<"a", "b">>}
PureServices == [Stage : PureFields, Stack : PureFields, App : PureFields]
PureValues == {<<"v">>, <<".", "/">>}
NameParts(service) == {Prefix(service) \o <<"/">>, <<"x">>, <<".">>, <<"/">>}

RECURSIVE PureNames(_, _)
PureNames(parts, k) ==
    IF k = 0 THEN {<<>>}
    ELSE LET shorter == PureNames(parts, k - 1)
         IN shorter \cup {a \o b : a \in shorter, b \in parts}

PureInputs ==
    UNION {{[fn |-> "input", service |-> s, name |-> n, value |-> v] :
               n \in PureNames(NameParts(s), MaxNameParts), v \in PureValues} :
           s \in PureServices}

InitPure ==
    /\ pure \in PureInputs
    /\ params = NoParams
    /\ cli = NoCli
    /\ sm = None
    /\ newErr = Nil
    /\ secrets = [n \in FullNames |-> AbsentRec]
    /\ pc = [p \in Callers |-> "idle"]
    /\ op = [p \in Callers |-> NoOp]
    /\ calls = [p \in Callers |-> <<>>]
    /\ ctxs = [p \in Callers |-> <<>>]
    /\ result = [p \in Callers |-> NoResult]

\* strings.NewReplacer(prefix+"/", "", ".", "_", "/", "_").Replace(s): the
\* string is scanned from left to right, and at each position the first
\* pair, in argument order, whose old string starts there is applied.
RECURSIVE clean(_, _)
clean(s, prefix) ==
    IF s = <<>> THEN <<>>
    ELSE IF IsPrefixOf(prefix \o <<"/">>, s)
    THEN clean(SubSeq(s, Len(prefix) + 2, Len(s)), prefix)
    ELSE IF Head(s) = "." THEN <<"_">> \o clean(Tail(s), prefix)
    ELSE IF Head(s) = "/" THEN <<"_">> \o clean(Tail(s), prefix)
    ELSE <<Head(s)>> \o clean(Tail(s), prefix)

\* func (c Parameter) String() string
String(c) == clean(c.Name, Prefix(c.Service)) \o <<"=">> \o c.Value

\* A call of Service.Prefix.
ApplyPrefix ==
    /\ pure.fn = "input"
    /\ pure' = [fn |-> "Prefix", service |-> pure.service, out |-> Prefix(pure.service)]
    /\ UNCHANGED <<params, cli, sm, newErr, secrets, pc, op, calls, ctxs, result>>

\* A call of Parameter.String.
ApplyString ==
    /\ pure.fn = "input"
    /\ pure' = [fn |-> "String",
                c |-> [Service |-> pure.service, Name |-> pure.name,
                       Value |-> pure.value, IsSecret |-> FALSE],
                out |-> String([Service |-> pure.service, Name |-> pure.name,
                                Value |-> pure.value, IsSecret |-> FALSE])]
    /\ UNCHANGED <<params, cli, sm, newErr, secrets, pc, op, calls, ctxs, result>>

NextPure == ApplyPrefix \/ ApplyString

SpecPure == InitPure /\ [][NextPure]_vars

\* ------------------------------------------------------------ the CLI
\* config.Config, and what a config file can be: not there (os.Open fails),
\* there but failing to be read, not JSON, or a JSON object, whose missing
\* fields stay empty.
ZeroConfig == [Stack |-> <<>>, Stage |-> <<>>, App |-> <<>>]
FullConfig == [Stack |-> <<"s">>, Stage |-> <<"T">>, App |-> <<"a">>]
CliConfigs == [Stack : {<<>>, <<"s">>}, Stage : {<<>>, <<"T">>}, App : {<<>>, <<"a">>}]
UnreadableFile == [kind |-> "unreadable"]
InvalidFile == [kind |-> "invalid"]
JsonFile(config) == [kind |-> "json", config |-> config]
\* JSON in which a field has a value that is not a string: json.Unmarshal
\* sets the other fields and returns an error.
MistypedFile(config) == [kind |-> "mistyped", config |-> config]
Ec2Files ==
    {NoFile, UnreadableFile, InvalidFile,
     JsonFile(FullConfig), JsonFile([FullConfig EXCEPT !.Stage = <<>>])}
FlagConfigs == {ZeroConfig, FullConfig, [ZeroConfig EXCEPT !.Stage = <<"P">>]}
CliNames == {<<"n">>, <<"m">>}
AskedConfigs == {FullConfig, [FullConfig EXCEPT !.Stage = <<>>]}
Answers == {<<"y">>, <<"n">>, <<"x">>, <<"y", " ", "x">>, <<"x", " ", "y", "y">>}
MaxAsks == 1
CliValues == {<<"v">>, <<"w">>}
CliCommands ==
    {"get", "list", "set", "delete", "set-local-config",
     "get-secretmgr", "list-secretmgr", "set-secretmgr", "delete-secretmgr"}

\* const ( InternalError = 1; InvalidArgs = 2 )
InternalError == 1
InvalidArgs == 2

\* The default of --secret-recovery-window, and of --app, --stack, --stage.
secretRecoveryWindowDefault == 30
FlagDefaults == ZeroConfig

\* Faulty variant of Merge: the first non-empty value of a field is kept.
RECURSIVE Merge_FirstWins(_)
Merge_FirstWins(configs) ==
    IF configs = <<>> THEN ZeroConfig
    ELSE LET out == Merge_FirstWins(Tail(configs))
             config == Head(configs)
         IN [Stack |-> IF config.Stack # <<>> THEN config.Stack ELSE out.Stack,
             Stage |-> IF config.Stage # <<>> THEN config.Stage ELSE out.Stage,
             App |-> IF config.App # <<>> THEN config.App ELSE out.App]

\* config.Merge: a later config's non-empty fields replace the earlier ones.
RECURSIVE Merge(_)
Merge(configs) ==
    IF configs = <<>> THEN ZeroConfig
    ELSE LET out == Merge(SubSeq(configs, 1, Len(configs) - 1))
             config == configs[Len(configs)]
         IN [Stack |-> IF config.Stack # <<>> THEN config.Stack ELSE out.Stack,
             Stage |-> IF config.Stage # <<>> THEN config.Stage ELSE out.Stage,
             App |-> IF config.App # <<>> THEN config.App ELSE out.App]

\* config.DefaultFiles: the files, of the two paths, that could be opened.
DefaultFiles(local, ec2) == SelectSeq(<<local, ec2>>, LAMBDA f : f # NoFile)

\* config.Read: the first file that can be read is unmarshalled, an error
\* there is returned at once; its config is merged with the arguments, and
\* an empty field of the merge is an error.
Read(argConfig, files) ==
    LET readable == SelectSeq(files, LAMBDA f : f # UnreadableFile)
        unmarshalFails == readable # <<>> /\ Head(readable).kind \in {"invalid", "mistyped"}
        fileConfig == IF readable = <<>> \/ Head(readable) = InvalidFile
                      THEN ZeroConfig ELSE Head(readable).config
        merged == Merge(<<fileConfig, argConfig>>)
    IN IF unmarshalFails
       THEN [conf |-> fileConfig, err |-> "UnmarshalError"]
       ELSE IF merged.App = <<>> \/ merged.Stack = <<>> \/ merged.Stage = <<>>
       THEN [conf |-> merged, err |-> "mandatory flag missing or empty"]
       ELSE [conf |-> merged, err |-> Nil]

\* The inputs of config.Read: argument configs with values of their own, and
\* up to MaxFiles opened files of every kind.
MaxFiles == 2
ArgConfigs == [Stack : {<<>>, <<"k">>}, Stage : {<<>>, <<"P">>}, App : {<<>>, <<"b">>}]
OtherConfig == [Stack |-> <<"2">>, Stage |-> <<"2">>, App |-> <<"2">>]
ReadFiles ==
    {UnreadableFile, InvalidFile, JsonFile(OtherConfig),
     MistypedFile([FullConfig EXCEPT !.Stage = <<>>])}
    \cup {JsonFile(c) : c \in CliConfigs}

RECURSIVE FileSeqs(_)
FileSeqs(k) ==
    IF k = 0 THEN {<<>>}
    ELSE LET shorter == FileSeqs(k - 1)
         IN shorter \cup {Append(fs, f) : fs \in shorter, f \in ReadFiles}

ReadInputs ==
    {[fn |-> "input", argConfig |-> a, files |-> fs] :
        a \in ArgConfigs, fs \in FileSeqs(MaxFiles)}

InitConf ==
    /\ pure \in ReadInputs
    /\ params = NoParams
    /\ cli = NoCli
    /\ sm = None
    /\ newErr = Nil
    /\ secrets = [n \in FullNames |-> AbsentRec]
    /\ pc = [p \in Callers |-> "idle"]
    /\ op = [p \in Callers |-> NoOp]
    /\ calls = [p \in Callers |-> <<>>]
    /\ ctxs = [p \in Callers |-> <<>>]
    /\ result = [p \in Callers |-> NoResult]

\* A call of config.Read.
ApplyRead ==
    /\ pure.fn = "input"
    /\ pure' = [fn |-> "Read", argConfig |-> pure.argConfig, files |-> pure.files,
                out |-> Read(pure.argConfig, pure.files)]
    /\ UNCHANGED <<params, cli, sm, newErr, secrets, pc, op, calls, ctxs, result>>

NextConf == ApplyRead

SpecConf == InitConf /\ [][NextConf]_vars

\* The state of the store and of the services when a CLI process starts: as
\* Init, with room for the names of every identity a config can give.
CliServices == {[Stage |-> c.Stage, Stack |-> c.Stack, App |-> c.App] : c \in CliConfigs}
CliFullNames == {SecretNameWithPath(s, n) : s \in CliServices, n \in CliNames}

InitCli ==
    /\ params = [n \in CliFullNames |-> NoParam]
    /\ pure = NoPure
    /\ cli = NoCli
    /\ sm = None
    /\ newErr = Nil
    /\ secrets = [n \in CliFullNames |-> AbsentRec]
    /\ pc = [p \in Callers |-> "idle"]
    /\ op = [p \in Callers |-> NoOp]
    /\ calls = [p \in Callers |-> <<>>]
    /\ ctxs = [p \in Callers |-> <<>>]
    /\ result = [p \in Callers |-> NoResult]

\* os.Exit(exitCode), or the return of the command's Run function (code 0);
\* and the end of the process in a panic.
Exited(exitCode) ==
    [pc |-> "exited", local |-> cli.local, exitCode |-> exitCode, panicked |-> FALSE]
Crashed == [pc |-> "exited", local |-> cli.local, exitCode |-> 2, panicked |-> TRUE]

\* main up to the store's construction: the flags are declared, argConf is
\* made of the flag variables as they are at that point, which is their
\* defaults, and config.Read gives conf, configErr and service.
CliMain(ec2) ==
    /\ cli.pc = "none"
    /\ LET argConf == FlagDefaults
           got == Read(argConf, DefaultFiles(cli.local, ec2))
       IN cli' = [pc |-> "stores", local |-> cli.local,
                  conf |-> got.conf, configErr |-> got.err,
                  service |-> [App |-> got.conf.App, Stack |-> got.conf.Stack,
                               Stage |-> got.conf.Stage]]
    /\ UNCHANGED <<params, pure, sm, newErr, secrets, pc, op, calls, ctxs, result>>

\* createStores: store.NewSecretsManager with the flag variable's value,
\* its default.
CliCreateStores ==
    /\ cli.pc = "stores"
    /\ NewSecretsManagerStore(secretRecoveryWindowDefault)

\* createStores: awsConfig.LoadDefaultConfig fails, check exits.
CliCreateStoresFails ==
    /\ cli.pc = "stores"
    /\ sm = None
    /\ cli' = Exited(1)
    /\ UNCHANGED <<params, pure, sm, newErr, secrets, pc, op, calls, ctxs, result>>

\* rootCmd.Execute: the command line is parsed and the command's Run called.
CliExecute(cmd, flags, name, value) ==
    /\ cli.pc = "stores"
    /\ sm # None
    /\ cli' = [pc |-> "run", local |-> cli.local, conf |-> cli.conf,
               configErr |-> cli.configErr, service |-> cli.service,
               cmd |-> cmd, flags |-> flags, name |-> name, value |-> value,
               asks |-> 0, answer |-> FALSE, stdin |-> <<>>, line |-> <<>>]
    /\ UNCHANGED <<params, pure, sm, newErr, secrets, pc, op, calls, ctxs, result>>

\* The values of --name: a name under the namespace, and for
\* delete-secretmgr ("Name or ARN of secret to delete") a full name as well.
CliArgNames(cmd) ==
    IF cmd = "delete-secretmgr"
    THEN CliNames \cup {SecretNameWithPath(SvcA, n) : n \in CliNames}
    ELSE IF cmd \in {"list", "list-secretmgr", "set-local-config"} THEN {<<>>}
    ELSE CliNames

\* The values of --value, a flag of set and set-secretmgr only.
CliArgValues(cmd) ==
    IF cmd = "set-secretmgr" THEN CliValues
    ELSE IF cmd = "set" THEN {<<"v">>}
    ELSE {<<>>}

\* The commands whose Run starts with check(logger, configErr, ...), the
\* ones that ask a yes/no question before the store, and the one that does
\* not use the store.
ChecksConfigErr(cmd) == cmd \notin {"get-secretmgr", "set-local-config"}
AsksYesNo(cmd) == cmd \in {"set", "delete", "delete-secretmgr"}

\* The start of a command's Run.
CliRun ==
    /\ cli.pc = "run"
    /\ cli' = IF ChecksConfigErr(cli.cmd) /\ cli.configErr # Nil
              THEN Exited(InvalidArgs)
              ELSE [cli EXCEPT !.pc = IF cli.cmd = "set-local-config" THEN "write"
                                      ELSE IF AsksYesNo(cli.cmd) THEN "ask"
                                      ELSE "store"]
    /\ UNCHANGED <<params, pure, sm, newErr, secrets, pc, op, calls, ctxs, result>>

\* fmt.Scanln(&got) on the unread input: blanks are skipped, the word up to
\* the next blank or newline is stored, and the rest of the line is read up
\* to and including its newline or the first character that is not a blank.
\* A line without a word stores nothing. The error Scanln returns is not
\* looked at by ask.
Newline == "\n"

RECURSIVE SkipSpaces(_)
SkipSpaces(in) ==
    IF in # <<>> /\ Head(in) = " " THEN SkipSpaces(Tail(in)) ELSE in

RECURSIVE Token(_)
Token(in) ==
    IF in = <<>> \/ Head(in) \in {" ", Newline}
    THEN <<>>
    ELSE <<Head(in)>> \o Token(Tail(in))

Scanln(in) ==
    LET s == SkipSpaces(in)
    IN IF s = <<>>
       THEN [got |-> <<>>, rest |-> <<>>]
       ELSE IF Head(s) = Newline
       THEN [got |-> <<>>, rest |-> Tail(s)]
       ELSE LET tok == Token(s)
                after == SkipSpaces(SubSeq(s, Len(tok) + 1, Len(s)))
            IN [got |-> tok, rest |-> IF after = <<>> THEN <<>> ELSE Tail(after)]

\* ask: got := ""; fmt.Scanln(&got); return got.
ask(in) == Scanln(in)

\* askYesNo on the unread input: "y" is true, "n" is false, anything else
\* asks again. set takes the answer as isSecret; delete and
\* delete-secretmgr return on false.
askYesNo(in, line) ==
    LET r == ask(in)
    IN IF r.got \notin {<<"y">>, <<"n">>}
       THEN /\ cli.asks < MaxAsks
            /\ cli' = [cli EXCEPT !.asks = @ + 1, !.stdin = r.rest, !.line = line]
       ELSE IF cli.cmd = "set" \/ r.got = <<"y">>
       THEN cli' = [cli EXCEPT !.pc = "store", !.answer = (r.got = <<"y">>),
                               !.stdin = r.rest, !.line = line]
       ELSE cli' = Exited(0)

\* The question is on the screen and nothing is left unread: the user types
\* a line.
CliAnswer(line) ==
    /\ cli.pc = "ask"
    /\ cli.stdin = <<>>
    /\ askYesNo(line \o <<Newline>>, line)
    /\ UNCHANGED <<params, pure, sm, newErr, secrets, pc, op, calls, ctxs, result>>

\* The question is asked again while part of the last line is still unread:
\* Scanln reads on from there.
CliReadsOn ==
    /\ cli.pc = "ask"
    /\ cli.stdin # <<>>
    /\ askYesNo(cli.stdin, cli.line)
    /\ UNCHANGED <<params, pure, sm, newErr, secrets, pc, op, calls, ctxs, result>>

\* The command's call of its store with service.
CliStore ==
    /\ cli.pc = "store"
    /\ CASE cli.cmd = "get" -> SsmGet("c1", cli.service, cli.name)
         [] cli.cmd = "list" -> SsmList("c1", cli.service)
         [] cli.cmd = "set" -> SsmSet("c1", cli.service, cli.name, cli.value, cli.answer)
         [] cli.cmd = "delete" -> SsmDelete("c1", cli.service, cli.name)
         [] cli.cmd = "get-secretmgr" -> Get("c1", cli.service, cli.name)
         [] cli.cmd = "list-secretmgr" -> List("c1", cli.service)
         [] cli.cmd = "set-secretmgr" -> Set("c1", cli.service, cli.name, cli.value, TRUE)
         [] cli.cmd = "delete-secretmgr" -> Delete("c1", cli.service, cli.name)

\* The store's answer: check exits on an error, else Run returns; a panic
\* of the store ends the process.
CliStoreReturns ==
    /\ cli.pc = "store"
    /\ pc["c1"] \in {"done", "panicked"}
    /\ cli' = IF pc["c1"] = "panicked" THEN Crashed
              ELSE IF result["c1"].err # Nil THEN Exited(InternalError)
              ELSE Exited(0)
    /\ pc' = [pc EXCEPT !["c1"] = "idle"]
    /\ op' = [op EXCEPT !["c1"] = NoOp]
    /\ calls' = [calls EXCEPT !["c1"] = <<>>]
    /\ ctxs' = [ctxs EXCEPT !["c1"] = <<>>]
    /\ result' = [result EXCEPT !["c1"] = NoResult]
    /\ UNCHANGED <<params, pure, sm, newErr, secrets>>

\* set-local-config: when config.Read failed the three values are asked
\* for; config.Write writes the local file, or fails and is not looked at.
CliWriteConfig(asked, written) ==
    /\ cli.pc = "write"
    /\ LET conf == IF cli.configErr # Nil THEN asked ELSE cli.conf
       IN cli' = [pc |-> "exited", local |-> IF written THEN JsonFile(conf) ELSE cli.local,
                  exitCode |-> 0, panicked |-> FALSE]
    /\ UNCHANGED <<params, pure, sm, newErr, secrets, pc, op, calls, ctxs, result>>

\* The process is gone, and its store with it; the local file stays.
CliExit ==
    /\ cli.pc = "exited"
    /\ cli' = [pc |-> "none", local |-> cli.local]
    /\ sm' = None
    /\ newErr' = Nil
    /\ UNCHANGED <<params, pure, secrets, pc, op, calls, ctxs, result>>

NextCli ==
    \/ \E ec2 \in Ec2Files : CliMain(ec2)
    \/ CliCreateStores
    \/ CliCreateStoresFails
    \/ \E cmd \in CliCommands, flags \in FlagConfigs :
          \E name \in CliArgNames(cmd), value \in CliArgValues(cmd) :
             CliExecute(cmd, flags, name, value)
    \/ CliRun
    \/ \E line \in Answers : CliAnswer(line)
    \/ CliReadsOn
    \/ CliStore
    \/ SetUpdate("c1")
    \/ ListNextPage("c1")
    \/ ListEntry("c1")
    \/ SsmListNextPage("c1")
    \/ CliStoreReturns
    \/ \E asked \in AskedConfigs, written \in BOOLEAN : CliWriteConfig(asked, written)
    \/ CliExit
    \/ \E n \in CliFullNames : RecoveryWindowElapses(n)

SpecCli == InitCli /\ [][NextCli]_vars

\* --------------------------------------------------------------- callers
\* The caller has its answer (or its process died) and is free for the next
\* operation.
Return(p) ==
    /\ pc[p] \in {"done", "panicked"}
    /\ pc' = [pc EXCEPT ![p] = "idle"]
    /\ op' = [op EXCEPT ![p] = NoOp]
    /\ calls' = [calls EXCEPT ![p] = <<>>]
    /\ ctxs' = [ctxs EXCEPT ![p] = <<>>]
    /\ result' = [result EXCEPT ![p] = NoResult]
    /\ UNCHANGED <<params, pure, cli, sm, newErr, secrets>>

\* One caller at a time, over both namespaces.
Next ==
    \/ \E r \in RetentionInputs : NewSecretsManagerStore(r)
    \/ \E s \in Services, n \in Names : Get("c1", s, n)
    \/ \E s \in Services, n \in Names, v \in Values, b \in BOOLEAN : Set("c1", s, n, v, b)
    \/ SetUpdate("c1")
    \/ \E s \in Services, n \in DeleteNames : Delete("c1", s, n)
    \/ \E s \in Services : List("c1", s)
    \/ ListNextPage("c1")
    \/ ListEntry("c1")
    \/ Return("c1")
    \/ \E n \in FullNames : RecoveryWindowElapses(n)

Spec == Init /\ [][Next]_vars

\* Two callers at a time on one secret name of one namespace: every
\* interleaving of their round trips.
ConcNames == {<<"n">>}
ConcDeleteNames == ConcNames \cup {SecretNameWithPath(SvcA, n) : n \in ConcNames}

NextConc ==
    \/ \E r \in RetentionInputs : NewSecretsManagerStore(r)
    \/ \E p \in Callers, n \in ConcNames : Get(p, SvcA, n)
    \/ \E p \in Callers, n \in ConcNames, v \in Values, b \in BOOLEAN : Set(p, SvcA, n, v, b)
    \/ \E p \in Callers : SetUpdate(p)
    \/ \E p \in Callers, n \in ConcDeleteNames : Delete(p, SvcA, n)
    \/ \E p \in Callers : Return(p)
    \/ \E n \in FullNames : RecoveryWindowElapses(n)

SpecConc == Init /\ [][NextConc]_vars

\* Two callers, one Set each with a name and a value of its own choice, on
\* names that do not exist yet; nothing else touches the service.
NextRace ==
    \/ NewSecretsManagerStore(0)
    \/ \E p \in Callers, s \in Services, n \in Names, v \in Values : Set(p, s, n, v, TRUE)
    \/ \E p \in Callers : SetUpdate(p)

SpecRace == Init /\ [][NextRace]_vars

\* One caller of the secrets backend on a service that also holds binary
\* secrets stored by other clients.
BinValues == {<<"v">>}

NextBin ==
    \/ NewSecretsManagerStore(0)
    \/ \E n \in FullNames : PutSecretBinary(n)
    \/ \E s \in Services, n \in Names : Get("c1", s, n)
    \/ \E s \in Services, n \in Names, v \in BinValues : Set("c1", s, n, v, TRUE)
    \/ SetUpdate("c1")
    \/ \E s \in Services, n \in FullNames : Delete("c1", s, n)
    \/ \E s \in Services : List("c1", s)
    \/ ListNextPage("c1")
    \/ ListEntry("c1")
    \/ Return("c1")

SpecBin == Init /\ [][NextBin]_vars

\* One caller of the SSM backend.
NextSsm ==
    \/ \E tg \in SsmTargets : SsmGet("c1", tg[1], tg[2])
    \/ \E tg \in SsmTargets, v \in Values, b \in BOOLEAN : SsmSet("c1", tg[1], tg[2], v, b)
    \/ \E tg \in SsmTargets : SsmDelete("c1", tg[1], tg[2])
    \/ \E s \in Services : SsmList("c1", s)
    \/ SsmListNextPage("c1")
    \/ Return("c1")

SpecSsm == Init /\ [][NextSsm]_vars

\* Construction with every retention period around the accepted range, then
\* one caller that sets and deletes one secret.
MaxRetentionInput == 32
WideRetentionInputs == (0 - 2) .. MaxRetentionInput

NextNew ==
    \/ \E r \in WideRetentionInputs : NewSecretsManagerStore(r)
    \/ \E n \in ConcNames, v \in Values : Set("c1", SvcA, n, v, TRUE)
    \/ SetUpdate("c1")
    \/ \E n \in ConcDeleteNames : Delete("c1", SvcA, n)
    \/ Return("c1")
    \/ \E n \in FullNames : RecoveryWindowElapses(n)

SpecNew == Init /\ [][NextNew]_vars

\* ================================================================ properties
CallsOf(p, api) == SelectSeq(calls[p], LAMBDA c : c.api = api)

\* What a Get of the secret would return in this state of the service.
GetNow(service, name) ==
    GetResult(service,
              SvcGetSecretValue(secrets, [SecretId |-> SecretNameWithPath(service, name)]))

SetDone(p) == pc[p] = "done" /\ op[p].kind = "Set"

\* C1: a successful Set(id, n, v, true) followed immediately by Get(id, n)
\* returns an Item whose Value is v, whatever values were set on n before.
C1_SetGetRoundTrip ==
    \A p \in Callers :
        (SetDone(p) /\ result[p].err = Nil) =>
            LET got == GetNow(op[p].service, op[p].name)
            IN got.err = Nil /\ got.item[1].Value = op[p].value

\* C2: when the create step fails with the conflict, Set makes exactly one
\* create attempt, then exactly one update attempt, and returns the update's
\* result.
C2_ConflictFallsBackOnce ==
    \A p \in Callers :
        (SetDone(p) /\ Len(calls[p]) >= 1 /\ calls[p][1].api = "CreateSecret"
                    /\ calls[p][1].err = "ResourceExistsException") =>
            /\ Len(calls[p]) = 2
            /\ calls[p][2].api = "PutSecretValue"
            /\ Len(CallsOf(p, "CreateSecret")) = 1
            /\ Len(CallsOf(p, "PutSecretValue")) = 1
            /\ result[p].err = calls[p][2].err

C2_Witness ==
    /\ SetDone("c1")
    /\ Len(calls["c1"]) = 2
    /\ calls["c1"][1].err = "ResourceExistsException"
    /\ calls["c1"][2].api = "PutSecretValue"
    /\ result["c1"].err = Nil

\* C3: when the create step succeeds or fails with an error other than the
\* conflict, Set makes exactly one create attempt and no update attempt, and
\* returns the create's result unmodified.
C3_NoFallbackOtherwise ==
    \A p \in Callers :
        (op[p].kind = "Set" /\ pc[p] # "idle" /\ op[p].isSecret
            /\ Len(calls[p]) >= 1 /\ calls[p][1].err # "ResourceExistsException") =>
            /\ pc[p] = "done"
            /\ Len(calls[p]) = 1
            /\ calls[p][1].api = "CreateSecret"
            /\ Len(CallsOf(p, "PutSecretValue")) = 0
            /\ result[p].err = calls[p][1].err

C3_Witness ==
    /\ SetDone("c1")
    /\ op["c1"].isSecret
    /\ Len(calls["c1"]) = 1
    /\ calls["c1"][1].err \notin {Nil, "ResourceExistsException"}
    /\ result["c1"].err = calls["c1"][1].err

\* C4: Set with isSecret = false returns an error, makes no call to the
\* service, and leaves the secrets of the service as they were.
C4_NonSecretRejected ==
    [][\A p \in Callers :
          (pc[p] = "idle" /\ pc'[p] # "idle" /\ op'[p].kind = "Set" /\ ~op'[p].isSecret) =>
              /\ pc'[p] = "done"
              /\ result'[p].err # Nil
              /\ calls'[p] = <<>>
              /\ secrets' = secrets]_vars

C4_Witness ==
    /\ SetDone("c1")
    /\ ~op["c1"].isSecret
    /\ result["c1"].err = "ErrNotSecret"
    /\ calls["c1"] = <<>>
    /\ \E n \in FullNames : secrets[n].st = "Active"

\* C5: the error Set returns is never of the NotFound kind, also when another
\* caller's Delete takes effect between the create and the update attempt.
C5_SetNeverNotFound ==
    \A p \in Callers : SetDone(p) => result[p].err # "ResourceNotFoundException"

\* C6: when a round trip inside List fails, List returns that error to its
\* caller with no items: no partial results and no crash.
C6_ListErrorReturned ==
    \A p \in Callers :
        (op[p].kind = "List" /\ pc[p] \in {"done", "panicked"}
            /\ \E i \in 1 .. Len(calls[p]) : calls[p][i].err # Nil) =>
            /\ pc[p] = "done"
            /\ result[p].err = calls[p][Len(calls[p])].err
            /\ result[p].items \in {None, Some(<<>>)}

RECURSIVE ServedEntries(_)
ServedEntries(pages) ==
    IF pages = <<>> THEN <<>> ELSE Head(pages).SecretList \o ServedEntries(Tail(pages))

\* C7: a successful List over N pages with k_i entries makes exactly N page
\* fetches and sum(k_i) value fetches, and returns sum(k_i) items in page
\* order, each with its entry's name, the value fetched for that entry,
\* IsSecret = true and the requested Service.
C7_ListPagesAndItems ==
    \A p \in Callers :
        (op[p].kind = "List" /\ pc[p] = "done" /\ result[p].err = Nil) =>
            LET pages == CallsOf(p, "ListSecrets")
                fetches == CallsOf(p, "GetSecretValue")
                served == ServedEntries(pages)
                items == result[p].items[1]
            IN /\ Len(pages) >= 1
               /\ \A i \in 1 .. Len(pages) : (pages[i].NextToken = None) <=> (i = Len(pages))
               /\ Len(fetches) = Len(served)
               /\ Len(items) = Len(served)
               /\ \A i \in 1 .. Len(served) :
                     /\ fetches[i].req.SecretId = served[i].ARN
                     /\ items[i] = [Service |-> op[p].service,
                                    Name |-> served[i].Name,
                                    Value |-> IF fetches[i].SecretString = None THEN <<>>
                                              ELSE fetches[i].SecretString[1],
                                    IsSecret |-> TRUE]

C7_Witness ==
    /\ op["c1"].kind = "List" /\ pc["c1"] = "done" /\ result["c1"].err = Nil
    /\ LET pages == CallsOf("c1", "ListSecrets")
       IN /\ Len(pages) = 2
          /\ Len(pages[1].SecretList) = 2
          /\ Len(pages[2].SecretList) = 1
          /\ Len(result["c1"].items[1]) = 3

\* C8: Delete(service, name) issues its request against the secret name
\* Prefix(service) + "/" + name, in both deletion shapes.
C8_DeleteTargetsFullPath ==
    \A p \in Callers :
        \A i \in 1 .. Len(calls[p]) :
            calls[p][i].api = "DeleteSecret" =>
                calls[p][i].req.SecretId = SecretNameWithPath(op[p].service, op[p].name)

\* C9: with retention 0, a successful Delete(id, n) leaves n Absent: the next
\* Get(id, n) fails with NotFound and no longer returns the value set before.
C9_DeleteMakesAbsent ==
    \A p \in Callers :
        (pc[p] = "done" /\ op[p].kind = "Delete" /\ result[p].err = Nil
            /\ SecretRetentionDays = 0) =>
            GetNow(op[p].service, op[p].name).err = "ResourceNotFoundException"

\* C10: every delete request sets exactly one of the two fields: force-delete
\* = true and no recovery window with retention 0, recovery window = r and
\* force-delete unset or false with retention r > 0.
C10_DeleteShapesExclusive ==
    \A p \in Callers :
        \A i \in 1 .. Len(calls[p]) :
            calls[p][i].api = "DeleteSecret" =>
                LET req == calls[p][i].req
                IN /\ (SecretRetentionDays = 0 =>
                          /\ req.ForceDeleteWithoutRecovery = Some(TRUE)
                          /\ req.RecoveryWindowInDays = None)
                   /\ (SecretRetentionDays > 0 =>
                          /\ req.RecoveryWindowInDays = Some(SecretRetentionDays)
                          /\ req.ForceDeleteWithoutRecovery \in {None, Some(FALSE)})
                   /\ (req.RecoveryWindowInDays # None) # (req.ForceDeleteWithoutRecovery = Some(TRUE))

C10_Witness ==
    /\ pc["c1"] = "done" /\ op["c1"].kind = "Delete" /\ result["c1"].err = Nil
    /\ calls["c1"][1].req.RecoveryWindowInDays = Some(7)
    /\ calls["c1"][1].req.ForceDeleteWithoutRecovery = None
    /\ \E n \in FullNames : secrets[n].st = "Scheduled"

\* C11: construction succeeds if and only if the retention period is 0 or in
\* 7..30; every other value fails construction with an error and no backend,
\* so that no later Delete is rejected for its retention period.
C11_ConstructionValidatesRetention ==
    [][/\ \A r \in WideRetentionInputs :
             NewSecretsManagerStore(r) =>
                 /\ (r = 0 \/ (7 <= r /\ r <= 30)) <=> (sm' # None /\ newErr' = Nil)
                 /\ (sm' = None) <=> (newErr' # Nil)
                 /\ sm' # None => sm'[1].SecretRetentionDays = r
       /\ \A p \in Callers :
             \A i \in 1 .. Len(calls'[p]) :
                 calls'[p][i].api = "DeleteSecret" =>
                     calls'[p][i].err \notin {"InvalidParameterException", "ErrRetentionPeriod"}
      ]_vars

C11_Witness ==
    /\ sm = Some([SecretRetentionDays |-> 30])
    /\ pc["c1"] = "done" /\ op["c1"].kind = "Delete" /\ result["c1"].err = Nil
    /\ calls["c1"][1].req.RecoveryWindowInDays = Some(30)

\* What an SSM Get of the parameter would return in this state of the service.
SsmGetNow(service, name) ==
    SsmGetResult(service, SvcGetParameter(params, GetParameterInput(service, name)))

SsmSetDone(p) == pc[p] = "done" /\ op[p].kind = "SsmSet"

\* C12: the parameter backend's Set is an upsert: on a name that exists it
\* succeeds and replaces the value as on an absent name, so that every Set
\* the service answers is followed by a Get of the new value, and Set never
\* fails because the entry exists.
C12_SsmSetIsUpsert ==
    \A p \in Callers :
        (SsmSetDone(p) /\ result[p].err # TransportError) =>
            /\ result[p].err = Nil
            /\ SsmGetNow(op[p].service, op[p].name).err = Nil
            /\ SsmGetNow(op[p].service, op[p].name).item[1].Value = op[p].value

\* C13: List(service) returns every item that was set under the service's
\* namespace and not deleted since, names with a "/" in them included.
C13_ListReturnsAllItems ==
    \A p \in Callers :
        (pc[p] = "done" /\ op[p].kind = "SsmList" /\ result[p].err = Nil) =>
            \A tg \in SsmTargets :
                (tg[1] = op[p].service
                    /\ params[SecretNameWithPath(tg[1], tg[2])].st = "Present") =>
                    \E i \in 1 .. Len(result[p].items) :
                        result[p].items[i].Name = SecretNameWithPath(tg[1], tg[2])

RECURSIVE PageParameters(_)
PageParameters(pages) ==
    IF pages = <<>> THEN <<>> ELSE Head(pages).Parameters \o PageParameters(Tail(pages))

\* C19: the parameter backend's List fetches pages until a page has no
\* token, each with the token of the page before, and when no fetch fails
\* returns the entries of all pages in page order, each once, and no error.
C19_SsmListAllPages ==
    \A p \in Callers :
        (pc[p] = "done" /\ op[p].kind = "SsmList"
            /\ \A i \in 1 .. Len(calls[p]) : calls[p][i].err = Nil) =>
            LET pages == calls[p]
                served == PageParameters(pages)
            IN /\ Len(pages) >= 1
               /\ \A i \in 1 .. Len(pages) :
                     /\ pages[i].api = "GetParametersByPath"
                     /\ (pages[i].NextToken = None) <=> (i = Len(pages))
                     /\ pages[i].req.NextToken = (IF i = 1 THEN None ELSE pages[i - 1].NextToken)
               /\ result[p].err = Nil
               /\ Len(result[p].items) = Len(served)
               /\ \A i \in 1 .. Len(served) :
                     /\ result[p].items[i].Name = served[i].Name
                     /\ result[p].items[i].Value = served[i].Value
                     /\ result[p].items[i].Service = op[p].service

C19_Witness ==
    /\ pc["c1"] = "done" /\ op["c1"].kind = "SsmList" /\ result["c1"].err = Nil
    /\ Len(calls["c1"]) = 2
    /\ Len(calls["c1"][1].Parameters) = 1
    /\ Len(calls["c1"][2].Parameters) = 1
    /\ Len(result["c1"].items) = 2
    /\ result["c1"].items[1].Name # result["c1"].items[2].Name

\* The GetSecretValue round trips of a caller, in order.
FetchesOf(p) == SelectSeq(calls[p], LAMBDA c : c.api = "GetSecretValue")

\* C16: every Item the secret backend returns, from Get and from List, has
\* IsSecret = true and carries the service identity the operation was given,
\* whatever the service answered.
C16_SecretItemsFlagged ==
    \A p \in Callers :
        /\ (pc[p] = "done" /\ op[p].kind = "Get" /\ result[p].item # None) =>
              /\ result[p].item[1].IsSecret = TRUE
              /\ result[p].item[1].Service = op[p].service
        /\ (pc[p] = "done" /\ op[p].kind = "List" /\ result[p].items # None) =>
              \A i \in 1 .. Len(result[p].items[1]) :
                  /\ result[p].items[1][i].IsSecret = TRUE
                  /\ result[p].items[1][i].Service = op[p].service

C16_Witness ==
    /\ pc["c1"] = "done" /\ op["c1"].kind = "List" /\ op["c1"].service = SvcB
    /\ result["c1"].err = Nil
    /\ Len(result["c1"].items[1]) = 2
    /\ \E i \in 1 .. 2 : result["c1"].items[1][i].Value = <<>>
    /\ \E i \in 1 .. 2 : result["c1"].items[1][i].Value = <<"v">>

\* C17: when the service's answer for a secret has no text (a binary
\* secret), Get, and the fetch of the entry in List, succeed with the empty
\* string as Value.
C17_BinaryReadsAsEmpty ==
    \A p \in Callers :
        /\ (pc[p] = "done" /\ op[p].kind = "Get"
               /\ calls[p][1].err = Nil /\ calls[p][1].SecretString = None) =>
              /\ result[p].err = Nil
              /\ result[p].item # None
              /\ result[p].item[1].Value = <<>>
        /\ (pc[p] \in {"done", "panicked"} /\ op[p].kind = "List"
               /\ \A i \in 1 .. Len(calls[p]) : calls[p][i].err = Nil) =>
              /\ pc[p] = "done"
              /\ result[p].err = Nil
              /\ result[p].items # None
              /\ Len(result[p].items[1]) = Len(FetchesOf(p))
              /\ \A i \in 1 .. Len(FetchesOf(p)) :
                    FetchesOf(p)[i].SecretString = None =>
                        result[p].items[1][i].Value = <<>>

C17_Witness ==
    /\ pc["c1"] = "done" /\ op["c1"].kind = "Get"
    /\ calls["c1"][1].err = Nil /\ calls["c1"][1].SecretString = None
    /\ secrets[SecretNameWithPath(op["c1"].service, op["c1"].name)].versions =
          {[token |-> BinaryToken, value |-> BinaryValue]}
    /\ result["c1"].err = Nil /\ result["c1"].item[1].Value = <<>>

\* C14: the display key of an Item is its name without prefix + "/" when,
\* and only where, the name starts with it, with every "." and every "/" of
\* the remainder replaced by "_"; a name that does not start with
\* prefix + "/" only has its characters replaced. The rendered form is
\* key + "=" + Value.
C14_DisplayKey ==
    pure.fn = "String" =>
        LET name == pure.c.Name
            lead == Prefix(pure.c.Service) \o <<"/">>
            rest == IF IsPrefixOf(lead, name)
                    THEN SubSeq(name, Len(lead) + 1, Len(name)) ELSE name
            key == [i \in 1 .. Len(rest) |->
                       IF rest[i] \in {".", "/"} THEN "_" ELSE rest[i]]
        IN pure.out = key \o <<"=">> \o pure.c.Value

\* C15: Prefix(service) is "/" + Stage + "/" + Stack + "/" + App, in that
\* field order, for every identity, the same for the same triple, and there
\* is no identity it fails on.
C15_PrefixShape ==
    /\ pure.fn = "input" => ENABLED ApplyPrefix
    /\ pure.fn = "Prefix" =>
          LET s == pure.service
              out == pure.out
              a == Len(s.Stage)
              b == Len(s.Stack)
              c == Len(s.App)
          IN /\ Len(out) = a + b + c + 3
             /\ out[1] = "/" /\ out[a + 2] = "/" /\ out[a + b + 3] = "/"
             /\ SubSeq(out, 2, a + 1) = s.Stage
             /\ SubSeq(out, a + 3, a + b + 2) = s.Stack
             /\ SubSeq(out, a + b + 4, a + b + c + 3) = s.App
             /\ out = Prefix(s)

C15_Witness ==
    /\ pure.fn = "Prefix"
    /\ pure.service = [Stage |-> <<"T">>, Stack |-> <<"s">>, App |-> <<"a", "b">>]
    /\ pure.out = <<"/", "T", "/", "s", "/", "a", "b">>

\* C20: no store operation is invoked by a CLI command with an identity
\* that has an empty Stage, Stack or App: a command whose identity
\* resolution failed stops before it reaches the store.
C20_StoreNeedsIdentity ==
    \A p \in Callers :
        op[p].kind # "none" =>
            /\ op[p].service.Stage # <<>>
            /\ op[p].service.Stack # <<>>
            /\ op[p].service.App # <<>>

\* Of a call of config.Read: the files that could be read, and what the
\* first of them gives for each field ("" when there is none, or no JSON).
ReadableFiles == SelectSeq(pure.files, LAMBDA f : f.kind # "unreadable")
FirstFileConfig ==
    IF ReadableFiles = <<>> \/ Head(ReadableFiles).kind = "invalid"
    THEN ZeroConfig ELSE Head(ReadableFiles).config
ArgOrFile(arg, file) == IF arg # <<>> THEN arg ELSE file
FieldwiseMerge ==
    [Stack |-> ArgOrFile(pure.argConfig.Stack, FirstFileConfig.Stack),
     Stage |-> ArgOrFile(pure.argConfig.Stage, FirstFileConfig.Stage),
     App |-> ArgOrFile(pure.argConfig.App, FirstFileConfig.App)]
HasEmptyField(c) == c.Stack = <<>> \/ c.Stage = <<>> \/ c.App = <<>>

C22_FlagsReachStore ==
    (cli.pc = "store" /\ op["c1"].kind # "none") =>
        /\ cli.flags.Stage # <<>> => op["c1"].service.Stage = cli.flags.Stage
        /\ cli.flags.Stack # <<>> => op["c1"].service.Stack = cli.flags.Stack
        /\ cli.flags.App # <<>> => op["c1"].service.App = cli.flags.App

\* Of the race of two Sets: the name a caller writes, and whether every
\* round trip so far reached the service and was answered.
RaceName(p) == SecretNameWithPath(op[p].service, op[p].name)
AllAnswered ==
    \A p \in Callers : \A i \in 1 .. Len(calls[p]) : calls[p][i].err # TransportError

\* C23: two callers that run Set at the same time on a name that did not
\* exist, with values v1 and v2, both return success in every interleaving
\* of their create and update round trips, exactly one secret exists
\* afterwards, and its current value is v1 or v2: the one written by the
\* last round trip that took effect.
C23_ConcurrentSetsBothSucceed ==
    [][/\ (secrets' # secrets) =>
             \E p \in Callers :
                 /\ calls'[p] # calls[p]
                 /\ secrets'[RaceName(p)'].st = "Active"
                 /\ CurrentValue(secrets'[RaceName(p)']) = op'[p].value
       /\ (AllAnswered' /\ \A p \in Callers : pc'[p] = "done") =>
             /\ \A p \in Callers : result'[p].err = Nil
             /\ {n \in DOMAIN secrets' : secrets'[n].st # "Absent"} =
                   {RaceName(p)' : p \in Callers}
             /\ \A p \in Callers :
                   /\ secrets'[RaceName(p)'].st = "Active"
                   /\ CurrentValue(secrets'[RaceName(p)']) \in
                         {op'[q].value : q \in {r \in Callers : RaceName(r)' = RaceName(p)'}}
      ]_vars

C23_Witness ==
    /\ AllAnswered
    /\ pc["c1"] = "done" /\ pc["c2"] = "done"
    /\ result["c1"].err = Nil /\ result["c2"].err = Nil
    /\ RaceName("c1") = RaceName("c2")
    /\ op["c1"].value = <<"v">> /\ op["c2"].value = <<"w">>
    /\ Len(calls["c1"]) = 2 /\ Len(calls["c2"]) = 1
    /\ CurrentValue(secrets[RaceName("c1")]) = <<"v">>

\* C24: List on one identity never returns an item stored under another
\* one, also when the App of the one is a proper prefix of the App of the
\* other: the Name of every returned item begins with Prefix(service) + "/".
C24_NamespaceIsolation ==
    \A p \in Callers :
        (pc[p] = "done" /\ op[p].kind = "List" /\ result[p].items # None) =>
            \A i \in 1 .. Len(result[p].items[1]) :
                IsPrefixOf(Prefix(op[p].service) \o <<"/">>, result[p].items[1][i].Name)

\* C25: the secret backend's List fetches a next page if and only if the
\* page it just received carries a token, and passes exactly that token;
\* when every round trip succeeds it ends right after the page without a
\* token, with the accumulated items, and has fetched no page beyond it.
C25_ListFollowsTokens ==
    \A p \in Callers :
        op[p].kind = "List" =>
            LET pages == CallsOf(p, "ListSecrets")
                fetches == CallsOf(p, "GetSecretValue")
                last == pages[Len(pages)]
                ok == \A i \in 1 .. Len(calls[p]) : calls[p][i].err = Nil
            IN /\ Len(pages) >= 1
               /\ pages[1].req.NextToken = None
               /\ \A i \in 2 .. Len(pages) :
                     /\ pages[i - 1].err = Nil
                     /\ pages[i - 1].NextToken # None
                     /\ pages[i].req.NextToken = pages[i - 1].NextToken
               /\ pc[p] = "List_page" => (last.err = Nil /\ last.NextToken # None)
               /\ (ok /\ Len(fetches) = Len(ServedEntries(pages))) =>
                     /\ last.NextToken # None => pc[p] = "List_page"
                     /\ last.NextToken = None =>
                           /\ pc[p] = "done"
                           /\ result[p].err = Nil
                           /\ Len(result[p].items[1]) = Len(ServedEntries(pages))

C25_Witness ==
    /\ op["c1"].kind = "List" /\ pc["c1"] = "done" /\ result["c1"].err = Nil
    /\ LET pages == CallsOf("c1", "ListSecrets")
       IN /\ Len(pages) = 3
          /\ pages[2].req.NextToken = pages[1].NextToken
          /\ pages[3].req.NextToken = pages[2].NextToken
          /\ pages[2].NextToken # pages[1].NextToken
          /\ pages[3].NextToken = None

\* C26: no retries. A Get and a Delete, on either backend, make exactly one
\* call of the service whether it succeeds or fails; a Set of the secret
\* backend makes at most two, a create and then, only on the conflict, one
\* update; and no call is repeated after it failed.
C26_NoRetries ==
    \A p \in Callers :
        /\ (pc[p] = "done" /\ op[p].kind \in {"Get", "Delete", "SsmGet", "SsmDelete"}) =>
              Len(calls[p]) = 1
        /\ op[p].kind = "Set" =>
              /\ Len(calls[p]) <= 2
              /\ Len(calls[p]) >= 1 => calls[p][1].api = "CreateSecret"
              /\ Len(calls[p]) = 2 =>
                    /\ calls[p][1].err = "ResourceExistsException"
                    /\ calls[p][2].api = "PutSecretValue"
        /\ \A i, j \in 1 .. Len(calls[p]) :
              (i < j /\ calls[p][i].err # Nil) =>
                  ~(calls[p][j].api = calls[p][i].api /\ calls[p][j].req = calls[p][i].req)

C26_Witness ==
    /\ pc["c1"] = "done" /\ op["c1"].kind = "Set"
    /\ Len(calls["c1"]) = 2
    /\ calls["c1"][2].err = TransportError
    /\ result["c1"].err = TransportError
    /\ \E n \in DOMAIN params : params[n].st = "Present"

\* C27: the idempotency token of a Set is a function of the value alone:
\* equal values have equal tokens, whatever the service and the name; and
\* within one Set the update carries the token and the full name of the
\* create before it.
C27_TokenOfValue ==
    /\ \A p, q \in Callers :
          \A i \in 1 .. Len(calls[p]), j \in 1 .. Len(calls[q]) :
              (op[p].kind = "Set" /\ op[q].kind = "Set"
                 /\ calls[p][i].req.SecretString = calls[q][j].req.SecretString) =>
                  calls[p][i].req.ClientRequestToken = calls[q][j].req.ClientRequestToken
    /\ \A p \in Callers :
          (op[p].kind = "Set" /\ Len(calls[p]) = 2) =>
              /\ calls[p][1].api = "CreateSecret" /\ calls[p][2].api = "PutSecretValue"
              /\ calls[p][2].req.ClientRequestToken = calls[p][1].req.ClientRequestToken
              /\ calls[p][2].req.SecretId = calls[p][1].req.Name
              /\ calls[p][2].req.SecretId = SecretNameWithPath(op[p].service, op[p].name)
              /\ calls[p][2].req.SecretString = op[p].value

C27_Witness ==
    /\ op["c1"].kind = "Set" /\ op["c2"].kind = "Set"
    /\ op["c1"].value = <<"w">> /\ op["c2"].value = <<"v">>
    /\ Len(calls["c1"]) = 1 /\ Len(calls["c2"]) = 2
    /\ calls["c2"][1].err = "ResourceExistsException"
    /\ calls["c2"][2].req.ClientRequestToken = calls["c2"][1].req.ClientRequestToken
    /\ calls["c2"][2].req.ClientRequestToken # calls["c1"][1].req.ClientRequestToken
    /\ calls["c2"][2].req.SecretId = calls["c1"][1].req.Name

\* C28: when a page fetch of the parameter backend's List fails, the call
\* makes no further fetch and returns the service error wrapped, together
\* with exactly the items of the pages fetched before the failure.
C28_SsmListPartialOnError ==
    \A p \in Callers :
        (pc[p] = "done" /\ op[p].kind = "SsmList"
            /\ \E i \in 1 .. Len(calls[p]) : calls[p][i].err # Nil) =>
            LET pages == calls[p]
                last == Len(pages)
                served == PageParameters(SubSeq(pages, 1, last - 1))
            IN /\ \A i \in 1 .. last - 1 :
                     pages[i].err = Nil /\ pages[i].NextToken # None
               /\ pages[last].err # Nil
               /\ result[p].err # Nil
               /\ result[p].err = "unable to get parameters: " \o pages[last].err
               /\ Len(result[p].items) = Len(served)
               /\ \A i \in 1 .. Len(served) :
                     /\ result[p].items[i].Name = served[i].Name
                     /\ result[p].items[i].Value = served[i].Value
                     /\ result[p].items[i].Service = op[p].service

C28_Witness ==
    /\ pc["c1"] = "done" /\ op["c1"].kind = "SsmList"
    /\ Len(calls["c1"]) = 2
    /\ calls["c1"][1].err = Nil /\ Len(calls["c1"][1].Parameters) = 1
    /\ calls["c1"][2].err # Nil
    /\ result["c1"].err # Nil /\ Len(result["c1"].items) = 1

\* The contexts live after the first k events of a log.
LiveAfter(log, k) ==
    {c \in {log[i].ctx : i \in 1 .. k} :
        ~ \E i \in 1 .. k : log[i].ev = "cancel" /\ log[i].ctx = c}

\* The positions of the client calls in a log.
CallEvents(log) == {i \in 1 .. Len(log) : log[i].ev = "call"}

\* C29: every round trip of the secret backend runs under a context created
\* for it and used by no other round trip; every context is cancelled when
\* the operation has returned; in List never two contexts are live at once.
C29_OwnContextPerRoundTrip ==
    \A p \in Callers :
        op[p].kind \in {"Get", "Set", "Delete", "List"} =>
            LET log == ctxs[p]
            IN /\ Cardinality(CallEvents(log)) = Len(calls[p])
               /\ \A i \in CallEvents(log) :
                     /\ i > 1 /\ log[i - 1] = [ev |-> "new", ctx |-> log[i].ctx]
                     /\ \A j \in 1 .. Len(log) :
                           (j # i - 1 /\ log[j].ev = "new") => log[j].ctx # log[i].ctx
                     /\ \A j \in CallEvents(log) : j # i => log[j].ctx # log[i].ctx
                     /\ log[i].ctx \in LiveAfter(log, i)
               /\ pc[p] \in {"done", "panicked"} => LiveAfter(log, Len(log)) = {}
               /\ op[p].kind = "List" =>
                     \A k \in 1 .. Len(log) : Cardinality(LiveAfter(log, k)) <= 1

C29_Witness ==
    /\ op["c1"].kind = "List" /\ pc["c1"] = "done"
    /\ Len(calls["c1"]) = 4
    /\ calls["c1"][1].api = "ListSecrets" /\ calls["c1"][2].api = "GetSecretValue"
    /\ calls["c1"][3].api = "ListSecrets" /\ calls["c1"][4].api = "GetSecretValue"
    /\ Len(ctxs["c1"]) = 12
    /\ ctxs["c1"][11] = [ev |-> "call", ctx |-> 4]

\* C30: delete and delete-secretmgr call the store's Delete only after the
\* user answered the question with exactly "y": whenever the call has been
\* made, the line the user typed last is "y" and nothing else.
C30_DeleteOnlyAfterY ==
    (cli.pc = "store" /\ cli.cmd \in {"delete", "delete-secretmgr"}
        /\ calls["c1"] # <<>>) =>
        /\ calls["c1"][1].api \in {"DeleteParameter", "DeleteSecret"}
        /\ cli.line = <<"y">>

====
